---- MODULE Spec2Model ----
(***************************************************************************)
(* Model of download_wiki_dumps_simple.py: the directory-listing parser,   *)
(* find_latest_date, discover_shard_files, download_and_concatenate_shards *)
(* and cleanup_old_dumps (with the part of main that calls it).            *)
(*                                                                         *)
(* Python str values are TLA+ strings; Len, \o and SubSeq act on them.     *)
(***************************************************************************)
EXTENDS Integers, Sequences, FiniteSets, TLC

VARIABLES
    \* DirectoryListingParser
    tags,               \* start tags fed to the parser so far, in order
    files,              \* parser.files
    directories,        \* parser.directories
    \* find_latest_date
    date_pc,            \* "call" | "done"
    date_response,      \* what urlopen(base_url) gives
    latest_date,        \* the call's outcome
    \* discover_shard_files
    lang,               \* the lang argument
    disc_pc,            \* "fetch" | "retry" | "list_empty" | "list_404" | "done"
    requests,           \* URLs handed to urlopen so far, in order
    responses,          \* what each of those requests gave
    shard_result,       \* the call's outcome
    \* download_and_concatenate_shards
    shard_urls,         \* the shard_urls argument
    reasm_pc,           \* "download" | "concat" | "cleanup" | "done"
    temp_exists,        \* temp_dir.exists()
    temp_files,         \* file name -> content, for the files in temp_dir
    downloaded_shards,  \* the local list, as file names inside temp_dir
    output,             \* the output file
    reasm_returned,     \* "none" | "True" | "False"
    failed_download,    \* 0, or the 1-based index of the download that failed
    stream_ok,          \* whether the whole with-block ran to its end
    \* cleanup_old_dumps, called from main
    args,               \* [clean, yes]
    out_files,          \* names of the entries of output_dir
    clean_pc,           \* "main" | "unlink" | "done"
    dump_files,         \* matched files not yet processed by the unlink loop
    answer,             \* what input() returned, "<none>" when not asked
    deleted,            \* names unlinked so far
    cleanup_returned,   \* "none" | "True" | "False"
    exit_status         \* "none" (main goes on) | "1"

parserVars == <<tags, files, directories>>
dateVars == <<date_pc, date_response, latest_date>>
discVars == <<lang, disc_pc, requests, responses, shard_result>>
reasmVars == <<shard_urls, reasm_pc, temp_exists, temp_files, downloaded_shards,
               output, reasm_returned, failed_download, stream_ok>>
cleanVars == <<args, out_files, clean_pc, dump_files, answer, deleted,
               cleanup_returned, exit_status>>
vars == <<parserVars, dateVars, discVars, reasmVars, cleanVars>>

(***************************************************************************)
(* Strings                                                                 *)
(***************************************************************************)

\* The characters the model's strings use, as runs of consecutive code points.
CodeRuns ==
    << <<"\n", 10>>, <<" ", 32>>, <<"%", 37>>, <<"-./0123456789:", 45>>,
       <<"=", 61>>, <<"ABCDEFGHIJKLMNOPQRSTUVWXYZ", 65>>, <<"_", 95>>,
       <<"abcdefghijklmnopqrstuvwxyz", 97>>, <<"~", 126>> >>

CharAt(s, i) == SubSeq(s, i, i)

Chars(s) == {CharAt(s, i) : i \in 1..Len(s)}

AllChars == UNION {Chars(CodeRuns[r][1]) : r \in 1..Len(CodeRuns)}

\* ord(c)
OrdTable ==
    [c \in AllChars |->
        LET r == CHOOSE k \in 1..Len(CodeRuns) : c \in Chars(CodeRuns[k][1])
            i == CHOOSE k \in 1..Len(CodeRuns[r][1]) : CharAt(CodeRuns[r][1], k) = c
        IN  CodeRuns[r][2] + i - 1]

Ord(c) == OrdTable[c]

\* s.endswith(suffix)
EndsWith(s, suffix) ==
    /\ Len(suffix) <= Len(s)
    /\ SubSeq(s, Len(s) - Len(suffix) + 1, Len(s)) = suffix

\* s.startswith(prefix)
StartsWith(s, prefix) ==
    /\ Len(prefix) <= Len(s)
    /\ SubSeq(s, 1, Len(prefix)) = prefix

\* sub in s
Contains(s, sub) ==
    \E i \in 1..(Len(s) - Len(sub) + 1) : SubSeq(s, i, i + Len(sub) - 1) = sub

\* RStripSlash with only one trailing "/" removed
RStripOneSlash(s) ==
    IF s # "" /\ CharAt(s, Len(s)) = "/" THEN SubSeq(s, 1, Len(s) - 1) ELSE s

\* s.rstrip('/')
RECURSIVE RStripSlash(_)
RStripSlash(s) ==
    IF s # "" /\ CharAt(s, Len(s)) = "/"
    THEN RStripSlash(SubSeq(s, 1, Len(s) - 1))
    ELSE s

\* a < b for str: decided by the code points at the first position where
\* the two differ, a proper prefix being the smaller
StrLess(a, b) ==
    LET n == IF Len(a) < Len(b) THEN Len(a) ELSE Len(b)
        differ == {i \in 1..n : CharAt(a, i) # CharAt(b, i)}
    IN  IF differ = {} THEN Len(a) < Len(b)
        ELSE LET k == CHOOSE i \in differ : \A j \in differ : i <= j
             IN  Ord(CharAt(a, k)) < Ord(CharAt(b, k))

\* Sorted with the order of the listing kept
Unsorted(seq) == seq

\* sorted(seq) / list.sort() on a list of str
Sorted(seq) == SortSeq(seq, StrLess)

(***************************************************************************)
(* DirectoryListingParser                                                  *)
(***************************************************************************)

\* A start tag is [tag, attrs], attrs a sequence of <<name, value>>.  A value
\* of "" stands for both an empty value and a missing one (None): the code
\* tests only its truth.
HrefSkipped == {"../", "./"}

\* One pass of the loop body over attrs, lines 103-114, on the pair
\* p = [files, directories].
RECURSIVE HandleAttrs(_, _)
HandleAttrs(p, attrs) ==
    IF attrs = <<>> THEN p
    ELSE
        LET attr_name == attrs[1][1]
            attr_value == attrs[1][2]
            dir_name == RStripSlash(attr_value)
            q == IF attr_name = "href" /\ attr_value # ""
                    /\ attr_value \notin HrefSkipped
                 THEN IF EndsWith(attr_value, "/")
                      THEN IF dir_name # ""
                           THEN [p EXCEPT !.directories = Append(@, dir_name)]
                           ELSE p
                      ELSE [p EXCEPT !.files = Append(@, attr_value)]
                 ELSE p
        IN  HandleAttrs(q, Tail(attrs))

\* handle_starttag(tag, attrs)
HandleStartTag(p, tag, attrs) ==
    IF tag = "a" THEN HandleAttrs(p, attrs) ELSE p

\* parser = DirectoryListingParser(); parser.feed(html), html given as its
\* sequence of start tags
RECURSIVE FeedFrom(_, _)
FeedFrom(p, tagseq) ==
    IF tagseq = <<>> THEN p
    ELSE FeedFrom(HandleStartTag(p, tagseq[1].tag, tagseq[1].attrs), Tail(tagseq))

NewParser == [files |-> <<>>, directories |-> <<>>]

Feed(tagseq) == FeedFrom(NewParser, tagseq)

\* An anchor whose only attribute is href
Anchor(h) == [tag |-> "a", attrs |-> << <<"href", h>> >>]

\* A listing page made of one anchor per href
Page(hrefs) == [i \in 1..Len(hrefs) |-> Anchor(hrefs[i])]

(***************************************************************************)
(* Values the variables of a component hold while another one runs         *)
(***************************************************************************)

ParserIdle == tags = <<>> /\ files = <<>> /\ directories = <<>>

DateIdle == date_pc = "done" /\ date_response = "none" /\ latest_date = "none"

DiscIdle ==
    /\ lang = "en" /\ disc_pc = "done" /\ requests = <<>> /\ responses = <<>>
    /\ shard_result = "none"

ReasmIdle ==
    /\ shard_urls = <<>> /\ reasm_pc = "done" /\ temp_exists = FALSE
    /\ temp_files = <<>> /\ downloaded_shards = <<>>
    /\ output = [fmt |-> "absent", data |-> <<>>]
    /\ reasm_returned = "none" /\ failed_download = 0 /\ stream_ok = FALSE

CleanIdle ==
    /\ args = [clean |-> FALSE, yes |-> FALSE] /\ out_files = {}
    /\ clean_pc = "done" /\ dump_files = {} /\ answer = "<none>"
    /\ deleted = {} /\ cleanup_returned = "none" /\ exit_status = "none"

(***************************************************************************)
(* The parser fed one start tag at a time                                  *)
(***************************************************************************)

MaxTags == 3

ParserHrefs == {"", "../", "./", "/", "a", "a/", "a//"}

TagInputs ==
    {Anchor(h) : h \in ParserHrefs}
    \cup {[tag |-> "a", attrs |-> << <<"class", "x">>, <<"href", "b/">> >>],
          [tag |-> "a", attrs |-> << <<"name", "top">> >>],
          [tag |-> "link", attrs |-> << <<"href", "c/">> >>]}

ParserInit == ParserIdle /\ DateIdle /\ DiscIdle /\ ReasmIdle /\ CleanIdle

\* HTMLParser calls handle_starttag for the next start tag of the document.
ParserFeedTag ==
    \E t \in TagInputs :
        /\ Len(tags) < MaxTags
        /\ tags' = Append(tags, t)
        /\ LET p == HandleStartTag([files |-> files, directories |-> directories],
                                   t.tag, t.attrs)
           IN  files' = p.files /\ directories' = p.directories
        /\ UNCHANGED <<dateVars, discVars, reasmVars, cleanVars>>

ParserNext == ParserFeedTag

SpecParser == ParserInit /\ [][ParserNext]_vars

\* The href values of a sequence of start tags, in document order
RECURSIVE HrefsOf(_)
HrefsOf(tagseq) ==
    IF tagseq = <<>> THEN <<>>
    ELSE LET a == tagseq[1].attrs
         IN  [i \in 1..Len(SelectSeq(a, LAMBDA x : x[1] = "href")) |->
                  SelectSeq(a, LAMBDA x : x[1] = "href")[i][2]]
             \o HrefsOf(Tail(tagseq))

WellFormedAnchors ==
    \A i \in 1..Len(tags) :
        /\ tags[i].tag = "a"
        /\ Len(SelectSeq(tags[i].attrs, LAMBDA x : x[1] = "href")) = 1

NonParentNonEmpty(h) == h # "" /\ h \notin {"../", "./"}

OnlySeparators(h) == h # "" /\ Chars(h) = {"/"}

NoTrailingSeparator == \A i \in 1..Len(directories) : ~EndsWith(directories[i], "/")

IsDigit(c) == c \in Chars("0123456789")

\* date_pattern.match(d) for date_pattern = re.compile(r'^\d{8}$'): eight
\* digits from the start, then the end of the string; '$' also matches just
\* before a newline that ends the string.
DatePatternMatch(d) ==
    /\ Len(d) >= 8
    /\ \A i \in 1..8 : IsDigit(CharAt(d, i))
    /\ \/ Len(d) = 8
       \/ Len(d) = 9 /\ CharAt(d, 9) = "\n"

\* Lines 125-140 on the decoded page: the value returned, or the ValueError.
LatestDateOf(page) ==
    LET parser == Feed(page)
        dates == Sorted(SelectSeq(parser.directories, DatePatternMatch))
    IN  IF dates = <<>>
        THEN [ok |-> FALSE, error |-> "ValueError"]
        ELSE [ok |-> TRUE, value |-> dates[Len(dates)]]

MaxDateEntries == 3

DateHrefs ==
    {"../", "20240101/", "20231215/", "202050101/", "2020511/", "20240101\n/",
     "latest/"}

RECURSIVE SeqsUpTo(_, _)
SeqsUpTo(S, n) ==
    IF n = 0 THEN {<<>>}
    ELSE LET shorter == SeqsUpTo(S, n - 1)
         IN  shorter \cup {Append(q, x) : q \in shorter, x \in S}

\* What urlopen(base_url) followed by read().decode() can give
DateResponses ==
    {[kind |-> "ok", page |-> Page(hrefs)] : hrefs \in SeqsUpTo(DateHrefs, MaxDateEntries)}
    \cup {[kind |-> "http_error", code |-> c] : c \in {404, 500}}
    \cup {[kind |-> "error"]}

DateInit ==
    /\ date_pc = "call" /\ date_response = "none" /\ latest_date = "none"
    /\ ParserIdle /\ DiscIdle /\ ReasmIdle /\ CleanIdle

\* find_latest_date(base_url): every exception leaves as a ValueError.
FindLatestDate ==
    \E resp \in DateResponses :
        /\ date_pc = "call"
        /\ date_response' = resp
        /\ latest_date' = IF resp.kind = "ok" THEN LatestDateOf(resp.page)
                          ELSE [ok |-> FALSE, error |-> "ValueError"]
        /\ date_pc' = "done"
        /\ UNCHANGED <<parserVars, discVars, reasmVars, cleanVars>>

DateNext == FindLatestDate

SpecDate == DateInit /\ [][DateNext]_vars

\* The directory names of the listing find_latest_date was given
ListedDirectories ==
    LET d == Feed(date_response.page).directories
    IN  {d[i] : i \in 1..Len(d)}

ExactlyEightDigits(d) == Len(d) = 8 /\ \A i \in 1..Len(d) : IsDigit(CharAt(d, i))

\* C8: the result is the greatest, as a string, of the listed directory names
\* that are exactly 8 digits, every other name being ignored; with no such
\* name the call fails.
C8_LatestIsMaxEightDigitName ==
    (date_pc = "done" /\ date_response.kind = "ok") =>
        LET conforming == {d \in ListedDirectories : ExactlyEightDigits(d)}
        IN  IF conforming = {}
            THEN ~latest_date.ok
            ELSE /\ latest_date.ok
                 /\ latest_date.value \in conforming
                 /\ \A d \in conforming :
                        d = latest_date.value \/ StrLess(d, latest_date.value)

(***************************************************************************)
(* discover_shard_files and list_available_indexes                         *)
(***************************************************************************)

\* base_url as main builds it for a dump date
BaseUrl == "https://dumps.wikimedia.org/other/cirrus_search_index/20240101/"

\* Lines 217-220
Subdir(l) ==
    IF l = "simple" THEN "index_name=simplewiki_content"
    ELSE "index_name=" \o l \o "wiki_content"

\* Line 224
DirUrl(l) == BaseUrl \o Subdir(l) \o "/"

HexDigit(n) == CharAt("0123456789ABCDEF", n + 1)

\* The characters quote never encodes
AlwaysSafe ==
    Chars("ABCDEFGHIJKLMNOPQRSTUVWXYZ") \cup Chars("abcdefghijklmnopqrstuvwxyz")
    \cup Chars("0123456789_.-~")

\* Quote encoding nothing
QuoteNothing(s) == s

\* urllib.parse.quote(s, safe='/'): the always-safe and the safe characters
\* stay, every other character becomes %XX of its byte.
RECURSIVE Quote(_)
Quote(s) ==
    IF s = "" THEN ""
    ELSE LET c == CharAt(s, 1)
         IN  (IF c \in AlwaysSafe \/ c = "/" THEN c
              ELSE "%" \o HexDigit(Ord(c) \div 16) \o HexDigit(Ord(c) % 16))
             \o Quote(SubSeq(s, 2, Len(s)))

\* Lines 261-262
EncodedDirUrl(l) == BaseUrl \o Quote(Subdir(l)) \o "/"

IsShardFile(f) == EndsWith(f, ".json.bz2")

\* Lines 234-238 and 268-270: the sorted shard file names of a page
ShardFilesOf(page) == Sorted(SelectSeq(Feed(page).files, IsShardFile))

\* Lines 253 and 273
ShardUrls(prefix, shard_files) ==
    [i \in 1..Len(shard_files) |-> prefix \o "/" \o shard_files[i]]

\* IsNotFound taking every HTTP status for "not found"
AnyStatus(code) == TRUE

\* e.code == 404, line 259
IsNotFound(code) == code = 404

\* s.replace(old, "")
RECURSIVE Remove(_, _)
Remove(s, old) ==
    IF s = "" THEN ""
    ELSE IF StartsWith(s, old) THEN Remove(SubSeq(s, Len(old) + 1, Len(s)), old)
    ELSE CharAt(s, 1) \o Remove(SubSeq(s, 2, Len(s)), old)

Range(seq) == {seq[i] : i \in 1..Len(seq)}

\* list_available_indexes(base_url) on what its request gave: the set of
\* index names (the list's order is not used by its callers, who sort it).
\* On a page made of anchors the raw pattern search of lines 203-207 finds
\* only names the first two strategies find, so it adds nothing here.
ListAvailableIndexes(resp) ==
    IF resp.kind # "ok" THEN {}
    ELSE
        LET parser == Feed(resp.page)
            byDir == {d \in Range(parser.directories) : StartsWith(d, "index_name=")}
            all_items == Range(parser.files) \cup Range(parser.directories)
            marked == {Remove(x, ".json.bz2") : x \in {y \in all_items : Contains(y, "index_name=")}}
        IN  IF byDir # {} THEN byDir
            ELSE {x \in marked : StartsWith(x, "index_name=")}

\* sorted(available_indexes)[:n]
FirstSorted(S, n) ==
    LET all == Sorted(CHOOSE q \in [1..Cardinality(S) -> S] : Range(q) = S)
    IN  SubSeq(all, 1, IF Len(all) < n THEN Len(all) ELSE n)

DiscError(hint) == [ok |-> FALSE, error |-> "ValueError", hint |-> hint]

MaxListing == 3

MaxIndexEntries == 2

Langs == {"en", "simple", "zh-min-nan"}

ShardHrefs == {"part-1.json.bz2", "part-10.json.bz2", "part-2.json.bz2", "readme.txt", "old/"}

IndexHrefs == {"index_name=enwiki_content/", "index_name=simplewiki_general.json.bz2", "readme.txt"}

HttpCodes == {403, 404, 500}

\* What urlopen(url) followed by read().decode() can give
Failures == {[kind |-> "http_error", code |-> c] : c \in HttpCodes} \cup {[kind |-> "error"]}

ListingResponses ==
    {[kind |-> "ok", page |-> Page(h)] : h \in SeqsUpTo(ShardHrefs, MaxListing)} \cup Failures

IndexResponses ==
    {[kind |-> "ok", page |-> Page(h)] : h \in SeqsUpTo(IndexHrefs, MaxIndexEntries)} \cup Failures

DiscInit ==
    /\ lang \in Langs
    /\ disc_pc = "fetch" /\ requests = <<>> /\ responses = <<>> /\ shard_result = "none"
    /\ ParserIdle /\ DateIdle /\ ReasmIdle /\ CleanIdle

\* Lines 228-256 and the dispatch of lines 258-259 and 309-312: the first
\* request and what follows it up to the next request or the return.
DiscoverFetch ==
    \E resp \in ListingResponses :
        /\ disc_pc = "fetch"
        /\ requests' = Append(requests, DirUrl(lang))
        /\ responses' = Append(responses, resp)
        /\ IF resp.kind = "ok"
           THEN LET shard_files == ShardFilesOf(resp.page)
                IN  IF shard_files = <<>>
                    THEN disc_pc' = "list_empty" /\ UNCHANGED shard_result
                    ELSE /\ disc_pc' = "done"
                         /\ shard_result' =
                              [ok |-> TRUE,
                               urls |-> ShardUrls(BaseUrl \o Subdir(lang), shard_files)]
           ELSE IF resp.kind = "http_error" /\ IsNotFound(resp.code)
           THEN disc_pc' = "retry" /\ UNCHANGED shard_result
           ELSE disc_pc' = "done" /\ shard_result' = DiscError(<<>>)
        /\ UNCHANGED lang
        /\ UNCHANGED <<parserVars, dateVars, reasmVars, cleanVars>>

\* Lines 260-277: the one retry, with the subdirectory percent-encoded.
DiscoverRetry ==
    \E resp \in ListingResponses :
        /\ disc_pc = "retry"
        /\ requests' = Append(requests, EncodedDirUrl(lang))
        /\ responses' = Append(responses, resp)
        /\ LET shard_files == IF resp.kind = "ok" THEN ShardFilesOf(resp.page) ELSE <<>>
           IN  IF shard_files # <<>>
               THEN /\ disc_pc' = "done"
                    /\ shard_result' =
                         [ok |-> TRUE,
                          urls |-> ShardUrls(BaseUrl \o Quote(Subdir(lang)), shard_files)]
               ELSE disc_pc' = "list_404" /\ UNCHANGED shard_result
        /\ UNCHANGED lang
        /\ UNCHANGED <<parserVars, dateVars, reasmVars, cleanVars>>

\* Lines 240-250 and 311-312: no shard in a listing that was served.
DiscoverNoShards ==
    \E resp \in IndexResponses :
        /\ disc_pc = "list_empty"
        /\ requests' = Append(requests, BaseUrl)
        /\ responses' = Append(responses, resp)
        /\ shard_result' = DiscError(FirstSorted(ListAvailableIndexes(resp), 10))
        /\ disc_pc' = "done"
        /\ UNCHANGED lang
        /\ UNCHANGED <<parserVars, dateVars, reasmVars, cleanVars>>

\* Lines 279-308: both attempts failed.
DiscoverNotFound ==
    \E resp \in IndexResponses :
        /\ disc_pc = "list_404"
        /\ requests' = Append(requests, BaseUrl)
        /\ responses' = Append(responses, resp)
        /\ shard_result' = DiscError(FirstSorted(ListAvailableIndexes(resp), 20))
        /\ disc_pc' = "done"
        /\ UNCHANGED lang
        /\ UNCHANGED <<parserVars, dateVars, reasmVars, cleanVars>>

DiscNext == DiscoverFetch \/ DiscoverRetry \/ DiscoverNoShards \/ DiscoverNotFound

SpecDiscover == DiscInit /\ [][DiscNext]_vars

\* The entries of a served listing that are files named *.json.bz2: hrefs
\* that are not a directory and not a parent/current-directory marker
ListedShardNames(page) ==
    SelectSeq(HrefsOf(page),
              LAMBDA h : /\ h # "" /\ h \notin {"../", "./"}
                         /\ CharAt(h, Len(h)) # "/"
                         /\ EndsWith(h, ".json.bz2"))

Count(seq, x) == Cardinality({i \in 1..Len(seq) : seq[i] = x})

Ascending(seq) == \A i, j \in 1..Len(seq) : i < j => ~StrLess(seq[j], seq[i])

\* urls is the listed names, each once per listing entry, in ascending
\* order, each prefixed with prefix
IsSortedListingUnder(urls, prefix, names) ==
    /\ Len(urls) = Len(names)
    /\ \A i \in 1..Len(urls) :
           \E f \in Range(names) :
               urls[i] = prefix \o f /\ Count(urls, urls[i]) = Count(names, f)
    /\ Ascending(urls)

\* C5: after a 404 for the unencoded directory the second request goes to
\* the percent-encoded directory (index_name%3D...), and when that lists
\* .json.bz2 files the call returns them in ascending order as URLs under the
\* encoded path.
C5_EncodedRetryReturnsShards ==
    (/\ Len(responses) >= 2
     /\ responses[1].kind = "http_error" /\ responses[1].code = 404
     /\ responses[2].kind = "ok" /\ ListedShardNames(responses[2].page) # <<>>) =>
        LET encoded == BaseUrl \o "index_name%3D" \o lang \o "wiki_content/"
        IN  /\ requests[1] = BaseUrl \o "index_name=" \o lang \o "wiki_content/"
            /\ requests[2] = encoded
            /\ Len(requests) = 2
            /\ disc_pc = "done"
            /\ shard_result.ok
            /\ IsSortedListingUnder(shard_result.urls, encoded,
                                    ListedShardNames(responses[2].page))

C5_Witness ==
    /\ lang = "en"
    /\ Len(responses) = 2
    /\ responses[1] = [kind |-> "http_error", code |-> 404]
    /\ responses[2] = [kind |-> "ok",
                       page |-> Page(<<"part-2.json.bz2", "readme.txt", "part-1.json.bz2">>)]
    /\ shard_result.ok
    /\ shard_result.urls =
         <<BaseUrl \o "index_name%3Denwiki_content/part-1.json.bz2",
           BaseUrl \o "index_name%3Denwiki_content/part-2.json.bz2">>

\* C6: the shard directory is requested at most twice; the encoded request
\* is the second request and follows a 404 answer to the first; after any
\* other HTTP status for the first request the call has failed and no other
\* request was or will be made.
C6_OneRetryOnlyAfter404 ==
    LET plain == DirUrl(lang)
        encoded == EncodedDirUrl(lang)
    IN  /\ Cardinality({i \in 1..Len(requests) : requests[i] \in {plain, encoded}}) <= 2
        /\ \A i \in 1..Len(requests) :
               /\ requests[i] = plain => i = 1
               /\ requests[i] = encoded =>
                      /\ i = 2
                      /\ responses[1].kind = "http_error" /\ responses[1].code = 404
        /\ (/\ Len(responses) >= 1
            /\ responses[1].kind = "http_error" /\ responses[1].code # 404) =>
               /\ Len(requests) = 1
               /\ disc_pc = "done"
               /\ ~shard_result.ok

C6_Witness ==
    /\ Len(responses) = 1
    /\ responses[1] = [kind |-> "http_error", code |-> 500]
    /\ requests = <<DirUrl(lang)>>
    /\ disc_pc = "done" /\ ~shard_result.ok

\* C7: when the unencoded listing is served, the call returns exactly its
\* file entries that end in .json.bz2, in ascending string order, each as
\* a URL under the subdirectory; when there is none the call ends in an
\* error, never in an empty sequence.
C7_SortedShardUrlsOrError ==
    (/\ Len(responses) >= 1 /\ responses[1].kind = "ok" /\ disc_pc = "done") =>
        LET names == ListedShardNames(responses[1].page)
        IN  IF names = <<>>
            THEN ~shard_result.ok
            ELSE /\ shard_result.ok
                 /\ IsSortedListingUnder(shard_result.urls, DirUrl(lang), names)

C7_Witness ==
    /\ disc_pc = "done"
    /\ responses = <<[kind |-> "ok",
                      page |-> Page(<<"part-2.json.bz2", "part-1.json.bz2",
                                      "part-10.json.bz2">>)]>>
    /\ shard_result.ok
    /\ shard_result.urls = <<DirUrl(lang) \o "part-1.json.bz2",
                             DirUrl(lang) \o "part-10.json.bz2",
                             DirUrl(lang) \o "part-2.json.bz2">>

(***************************************************************************)
(* download_dump and download_and_concatenate_shards                       *)
(***************************************************************************)

\* os.path.basename(p): what follows the last "/"
Basename(p) ==
    LET slashes == {i \in 1..Len(p) : CharAt(p, i) = "/"}
    IN  IF slashes = {} THEN p
        ELSE LET last == CHOOSE i \in slashes : \A j \in slashes : j <= i
             IN  SubSeq(p, last + 1, Len(p))

ShardDir == BaseUrl \o "index_name=enwiki_content/"

\* Shard references; the third names a file entry "old/part-1.json.bz2" of
\* the same listing, which discover_shard_files returns like the others.
ShardRefs ==
    {ShardDir \o "part-1.json.bz2", ShardDir \o "part-2.json.bz2",
     ShardDir \o "old/part-1.json.bz2"}

\* The bytes each shard decompresses to
ShardBytes(url) ==
    IF url = ShardDir \o "part-1.json.bz2" THEN <<1, 2, 3>>
    ELSE IF url = ShardDir \o "part-2.json.bz2" THEN <<4>>
    ELSE <<5, 6>>

\* A file is [fmt, data]: "bz2" and "gzip" files hold the bytes they
\* decompress to, a "partial" file is the start of a transfer that broke.
Bz2File(data) == [fmt |-> "bz2", data |-> data]

GzipFile(data) == [fmt |-> "gzip", data |-> data]

PartialFile == [fmt |-> "partial", data |-> <<>>]

NoFile == [fmt |-> "absent", data |-> <<>>]

\* The chunk size of bz2_file.read, in bytes of the model
ChunkSize == 2

\* Lines 343-349: the chunks read from one shard until the empty chunk,
\* as written to outfile one after the other
RECURSIVE ReadAndWrite(_)
ReadAndWrite(data) ==
    IF data = <<>> THEN <<>>
    ELSE LET n == IF Len(data) < ChunkSize THEN Len(data) ELSE ChunkSize
             chunk == SubSeq(data, 1, n)
         IN  chunk \o ReadAndWrite(SubSeq(data, n + 1, Len(data)))

\* Lines 340-349 over the first n entries of the list paths, reading the
\* files of fs: what outfile has been given
RECURSIVE Streamed(_, _, _)
Streamed(fs, paths, n) ==
    IF n = 0 THEN <<>>
    ELSE Streamed(fs, paths, n - 1) \o ReadAndWrite(fs[paths[n]].data)

Without(fs, names) == [f \in DOMAIN fs \ names |-> fs[f]]

WithFile(fs, name, file) == [f \in DOMAIN fs \cup {name} |-> IF f = name THEN file ELSE fs[f]]

\* Lines 355-356: unlink each listed path in turn; the first path that no
\* longer exists raises.
RECURSIVE UnlinkEach(_, _)
UnlinkEach(fs, paths) ==
    IF paths = <<>> THEN [fs |-> fs, raised |-> FALSE]
    ELSE IF paths[1] \notin DOMAIN fs THEN [fs |-> fs, raised |-> TRUE]
    ELSE UnlinkEach(Without(fs, {paths[1]}), Tail(paths))

\* Lines 361-372, the except block, temp_dir existing: the listed paths that
\* exist are unlinked, rmdir removes the directory when it is empty
\* and its failure is swallowed.  Gives the files left, the directory being
\* left exactly when a file is.
AfterExcept(fs, paths) == Without(fs, Range(paths))

MaxShards == 3

StaleNames == {"part-1.json.bz2", "notes.txt"}

ReasmInit ==
    /\ shard_urls \in SeqsUpTo(ShardRefs, MaxShards)
    /\ reasm_pc = "mkdir"
    /\ temp_exists \in BOOLEAN
    /\ temp_files \in UNION {[S -> {Bz2File(<<9>>)}] : S \in SUBSET StaleNames}
    /\ (~temp_exists => DOMAIN temp_files = {})
    /\ downloaded_shards = <<>> /\ output = NoFile /\ reasm_returned = "none"
    /\ failed_download = 0 /\ stream_ok = FALSE
    /\ ParserIdle /\ DateIdle /\ DiscIdle /\ CleanIdle

\* Lines 317-321
MakeTempDir ==
    /\ reasm_pc = "mkdir"
    /\ temp_exists' = TRUE
    /\ downloaded_shards' = <<>>
    /\ reasm_pc' = IF shard_urls = <<>> THEN "concat" ELSE "download"
    /\ UNCHANGED <<shard_urls, temp_files, output, reasm_returned, failed_download, stream_ok>>
    /\ UNCHANGED <<parserVars, dateVars, discVars, cleanVars>>

\* Lines 325-333, one pass of the loop, with download_dump (lines 61-90):
\*   "ok"        the file is retrieved whole;
\*   "refused"   the HEAD request or the GET fails before urlretrieve opens
\*               the local file;
\*   "truncated" urlretrieve has opened the local file when the transfer
\*               fails.
\* A failed download raises, and the except block of lines 361-372 runs.
DownloadShard ==
    \E outcome \in {"ok", "refused", "truncated"} :
        /\ reasm_pc = "download"
        /\ LET i == Len(downloaded_shards) + 1
               shard_url == shard_urls[i]
               shard_filename == Basename(shard_url)
           IN  IF outcome = "ok"
               THEN /\ temp_files' = WithFile(temp_files, shard_filename,
                                              Bz2File(ShardBytes(shard_url)))
                    /\ downloaded_shards' = Append(downloaded_shards, shard_filename)
                    /\ reasm_pc' = IF i = Len(shard_urls) THEN "concat" ELSE "download"
                    /\ UNCHANGED <<temp_exists, reasm_returned, failed_download>>
               ELSE LET fs == IF outcome = "truncated"
                              THEN WithFile(temp_files, shard_filename, PartialFile)
                              ELSE temp_files
                    IN  /\ temp_files' = AfterExcept(fs, downloaded_shards)
                        /\ temp_exists' = (DOMAIN AfterExcept(fs, downloaded_shards) # {})
                        /\ failed_download' = i
                        /\ reasm_returned' = "False"
                        /\ reasm_pc' = "done"
                        /\ UNCHANGED downloaded_shards
        /\ UNCHANGED <<shard_urls, output, stream_ok>>
        /\ UNCHANGED <<parserVars, dateVars, discVars, cleanVars>>

\* Lines 336-349: the with-block.  broken = 0: it runs to its end.
\* broken = n > 0: gzip.open or the stream fails once n - 1 shards are
\* written, and the except block runs.
Concatenate ==
    \E broken \in 0..(Len(downloaded_shards) + 1) :
        /\ reasm_pc = "concat"
        /\ IF broken = 0
           THEN /\ output' = GzipFile(Streamed(temp_files, downloaded_shards,
                                               Len(downloaded_shards)))
                /\ stream_ok' = TRUE
                /\ reasm_pc' = "cleanup"
                /\ UNCHANGED <<temp_files, temp_exists, reasm_returned>>
           ELSE /\ output' = GzipFile(Streamed(temp_files, downloaded_shards, broken - 1))
                /\ stream_ok' = FALSE
                /\ temp_files' = AfterExcept(temp_files, downloaded_shards)
                /\ temp_exists' = (DOMAIN AfterExcept(temp_files, downloaded_shards) # {})
                /\ reasm_returned' = "False"
                /\ reasm_pc' = "done"
        /\ UNCHANGED <<shard_urls, downloaded_shards, failed_download>>
        /\ UNCHANGED <<parserVars, dateVars, discVars, cleanVars>>

\* Lines 351-359: unlink every listed path, rmdir, return True; an unlink of
\* a path already gone and an rmdir of a directory not empty raise, and the
\* except block of lines 361-372 returns False.
CleanUpAndReturn ==
    /\ reasm_pc = "cleanup"
    /\ LET u == UnlinkEach(temp_files, downloaded_shards)
       IN  IF ~u.raised /\ DOMAIN u.fs = {}
           THEN /\ temp_files' = <<>>
                /\ temp_exists' = FALSE
                /\ reasm_returned' = "True"
           ELSE /\ temp_files' = AfterExcept(u.fs, downloaded_shards)
                /\ temp_exists' = (DOMAIN AfterExcept(u.fs, downloaded_shards) # {})
                /\ reasm_returned' = "False"
    /\ reasm_pc' = "done"
    /\ UNCHANGED <<shard_urls, downloaded_shards, output, failed_download, stream_ok>>
    /\ UNCHANGED <<parserVars, dateVars, discVars, cleanVars>>

ReasmNext == MakeTempDir \/ DownloadShard \/ Concatenate \/ CleanUpAndReturn

SpecReasm == ReasmInit /\ [][ReasmNext]_vars

\* b1 || b2 || ... || bN for the references of urls, in the order given
RECURSIVE Concatenation(_)
Concatenation(urls) ==
    IF urls = <<>> THEN <<>>
    ELSE ShardBytes(urls[1]) \o Concatenation(Tail(urls))

AllDownloadsSucceeded == reasm_pc \in {"concat", "cleanup", "done"} /\ failed_download = 0

\* C1: once every download of a non-empty sequence has succeeded and the
\* stream has run to its end, the output decompresses to b1 || ... || bN in
\* the order of the sequence.
C1_OutputIsConcatenationInOrder ==
    (shard_urls # <<>> /\ AllDownloadsSucceeded /\ stream_ok) =>
        output = GzipFile(Concatenation(shard_urls))

\* C2: when the download of shard k has failed and the call has returned, no
\* temporary file of the shards 1..k is left in the temporary directory.
C2_NoShardFileLeftAfterFailedDownload ==
    (reasm_pc = "done" /\ failed_download > 0) =>
        \A i \in 1..failed_download : Basename(shard_urls[i]) \notin DOMAIN temp_files

\* C3: when every download of a non-empty sequence and the whole stream have
\* succeeded and the call has returned, it returned True, no temporary shard
\* file is left and the temporary directory is gone, whatever the directory
\* held when the call began.
C3_SuccessLeavesNoTempState ==
    (reasm_pc = "done" /\ shard_urls # <<>> /\ AllDownloadsSucceeded /\ stream_ok) =>
        /\ reasm_returned = "True"
        /\ \A i \in 1..Len(shard_urls) : Basename(shard_urls[i]) \notin DOMAIN temp_files
        /\ ~temp_exists

\* C4: a call with no shard reference returns False.
C4_EmptySequenceIsAnError ==
    (reasm_pc = "done" /\ shard_urls = <<>>) => reasm_returned = "False"

(***************************************************************************)
(* cleanup_old_dumps and the lines of main that call it                    *)
(***************************************************************************)

\* pattern, line 150
DumpPattern == "*wiki-*-cirrussearch-content.json.gz"

\* The pieces of a pattern between its "*" wildcards, in order
Segments(pat) ==
    LET stars == {i \in 1..Len(pat) : CharAt(pat, i) = "*"}
        cuts == {0, Len(pat) + 1} \cup stars
        nth(k) == CHOOSE c \in cuts : Cardinality({d \in cuts : d < c}) = k
    IN  [k \in 1..(Cardinality(cuts) - 1) |-> SubSeq(pat, nth(k - 1) + 1, nth(k) - 1)]

\* Whether the pieces of segs occur in text one after the other, each "*"
\* taking up what lies between, before and after them
RECURSIVE InOrder(_, _)
InOrder(text, segs) ==
    IF segs = <<>> THEN TRUE
    ELSE LET at == {i \in 1..(Len(text) - Len(segs[1]) + 1) :
                        SubSeq(text, i, i + Len(segs[1]) - 1) = segs[1]}
         IN  /\ at # {}
             /\ LET first == CHOOSE i \in at : \A j \in at : i <= j
                IN  InOrder(SubSeq(text, first + Len(segs[1]), Len(text)), Tail(segs))

\* GlobMatch with the pieces allowed to overlap
GlobMatchOverlapping(name, pat) ==
    LET segs == Segments(pat)
    IN  \A k \in 1..Len(segs) :
            IF k = 1 THEN StartsWith(name, segs[k])
            ELSE IF k = Len(segs) THEN EndsWith(name, segs[k])
            ELSE Contains(name, segs[k])

\* Whether output_dir.glob(pat) yields the entry called name, for a pattern
\* whose only wildcard is "*": name begins with the first piece, ends with
\* the last, and holds the others in between.
GlobMatch(name, pat) ==
    LET segs == Segments(pat)
        n == Len(segs)
    IN  IF n = 1 THEN name = pat
        ELSE /\ Len(name) >= Len(segs[1]) + Len(segs[n])
             /\ StartsWith(name, segs[1])
             /\ EndsWith(name, segs[n])
             /\ InOrder(SubSeq(name, Len(segs[1]) + 1, Len(name) - Len(segs[n])),
                        SubSeq(segs, 2, n - 1))

\* s.strip(), whitespace being the blank and the newline here
RECURSIVE Strip(_)
Strip(s) ==
    IF s = "" THEN s
    ELSE IF CharAt(s, 1) \in {" ", "\n"} THEN Strip(SubSeq(s, 2, Len(s)))
    ELSE IF CharAt(s, Len(s)) \in {" ", "\n"} THEN Strip(SubSeq(s, 1, Len(s) - 1))
    ELSE s

UpperCase == "ABCDEFGHIJKLMNOPQRSTUVWXYZ"

LowerCase == "abcdefghijklmnopqrstuvwxyz"

\* s.lower()
RECURSIVE Lower(_)
Lower(s) ==
    IF s = "" THEN s
    ELSE LET c == CharAt(s, 1)
             lc == IF c \in Chars(UpperCase)
                   THEN CharAt(LowerCase, CHOOSE i \in 1..Len(UpperCase) : CharAt(UpperCase, i) = c)
                   ELSE c
         IN  lc \o Lower(SubSeq(s, 2, Len(s)))

\* Lines 163-164: whether what input() returned lets the deletion go on
Accepted(typed) == Lower(Strip(typed)) \in {"yes", "y"}

OutNames ==
    {"enwiki-20240101-cirrussearch-content.json.gz",
     "simplewiki-20231215-cirrussearch-content.json.gz",
     "wiki--cirrussearch-content.json.gz",
     "wiki-cirrussearch-content.json.gz",
     "enwiki-20240101-cirrussearch-content.json.gz.part",
     "enwiki-20240101-cirrussearch-general.json.gz",
     "notes.txt"}

Answers == {"yes", "y", " Yes ", "Y", "no", "n", "", "yes please"}

CleanInit ==
    /\ args \in [clean : BOOLEAN, yes : BOOLEAN]
    /\ out_files \in SUBSET OutNames
    /\ clean_pc = "main" /\ dump_files = {} /\ answer = "<none>" /\ deleted = {}
    /\ cleanup_returned = "none" /\ exit_status = "none"
    /\ ParserIdle /\ DateIdle /\ DiscIdle /\ ReasmIdle

\* Line 432 with --clean not given
MainWithoutClean ==
    /\ clean_pc = "main" /\ ~args.clean
    /\ clean_pc' = "done"
    /\ UNCHANGED <<args, out_files, dump_files, answer, deleted, cleanup_returned, exit_status>>
    /\ UNCHANGED <<parserVars, dateVars, discVars, reasmVars>>

\* Lines 432-435 and 150-166: the call with confirm = not args.yes, up to the
\* unlink loop.
CleanupBegin ==
    \E typed \in Answers :
        /\ clean_pc = "main" /\ args.clean
        /\ LET found == {f \in out_files : GlobMatch(f, DumpPattern)}
               confirm == ~args.yes
           IN  IF found = {}
               THEN /\ cleanup_returned' = "True" /\ clean_pc' = "done"
                    /\ UNCHANGED <<dump_files, answer, exit_status>>
               ELSE IF confirm /\ ~Accepted(typed)
               THEN /\ answer' = typed
                    /\ cleanup_returned' = "False" /\ exit_status' = "1"
                    /\ clean_pc' = "done"
                    /\ UNCHANGED dump_files
               ELSE /\ answer' = IF confirm THEN typed ELSE "<none>"
                    /\ dump_files' = found
                    /\ clean_pc' = "unlink"
                    /\ UNCHANGED <<cleanup_returned, exit_status>>
        /\ UNCHANGED <<args, out_files, deleted>>
        /\ UNCHANGED <<parserVars, dateVars, discVars, reasmVars>>

\* Lines 168-174, one pass of the loop, on any of the files left (glob gives
\* them in an order the code does not fix); an unlink that raises ends the
\* call with False and main with status 1.
UnlinkNext ==
    \E f \in dump_files, raises \in BOOLEAN :
        /\ clean_pc = "unlink"
        /\ IF raises
           THEN /\ cleanup_returned' = "False" /\ exit_status' = "1"
                /\ clean_pc' = "done"
                /\ UNCHANGED <<out_files, dump_files, deleted>>
           ELSE /\ out_files' = out_files \ {f}
                /\ deleted' = deleted \cup {f}
                /\ dump_files' = dump_files \ {f}
                /\ UNCHANGED <<cleanup_returned, exit_status, clean_pc>>
        /\ UNCHANGED <<args, answer>>
        /\ UNCHANGED <<parserVars, dateVars, discVars, reasmVars>>

\* Lines 176-177
CleanupCompleted ==
    /\ clean_pc = "unlink" /\ dump_files = {}
    /\ cleanup_returned' = "True"
    /\ clean_pc' = "done"
    /\ UNCHANGED <<args, out_files, dump_files, answer, deleted, exit_status>>
    /\ UNCHANGED <<parserVars, dateVars, discVars, reasmVars>>

CleanNext == MainWithoutClean \/ CleanupBegin \/ UnlinkNext \/ CleanupCompleted

SpecClean == CleanInit /\ [][CleanNext]_vars

\* name is X wiki- Y -cirrussearch-content.json.gz for some X and Y
IsDumpName(name) ==
    \E i, j \in 1..Len(name) :
        /\ i + 4 <= Len(name)
        /\ SubSeq(name, i, i + 4) = "wiki-"
        /\ i + 5 <= j
        /\ SubSeq(name, j, Len(name)) = "-cirrussearch-content.json.gz"

Confirmed == answer \in {"yes", "y", " Yes ", "Y"}

Declined == answer \in {"no", "n", "", "yes please"}

\* C10: only files named *wiki-*-cirrussearch-content.json.gz are ever
\* deleted, and only in a cleanup that the user confirmed or that --yes
\* exempted from confirmation; once the user has declined nothing has been
\* deleted, the call has returned False and main exits with status 1.
C10_DeletesOnlyConfirmedDumpFiles ==
    /\ \A f \in deleted : IsDumpName(f)
    /\ deleted # {} => (args.clean /\ (args.yes \/ Confirmed))
    /\ deleted \cap out_files = {}
    /\ Declined =>
           /\ deleted = {}
           /\ clean_pc = "done"
           /\ cleanup_returned = "False"
           /\ exit_status = "1"

C10_Witness ==
    /\ args = [clean |-> TRUE, yes |-> FALSE]
    /\ answer = " Yes "
    /\ deleted = {"enwiki-20240101-cirrussearch-content.json.gz",
                  "wiki--cirrussearch-content.json.gz"}
    /\ out_files = {"wiki-cirrussearch-content.json.gz",
                    "enwiki-20240101-cirrussearch-content.json.gz.part",
                    "enwiki-20240101-cirrussearch-general.json.gz", "notes.txt"}
    /\ cleanup_returned = "True"

====
